---- MODULE Spec2Model ----
(***************************************************************************)
(* Model of django_vite/templatetags/django_vite.py: the asset loader      *)
(* (DjangoViteAssetLoader), its manifest cache and its public operations.  *)
(*                                                                         *)
(* Strings that the code only passes around are kept as TLA+ strings.      *)
(* Manifest keys are sequences of characters, because the legacy-polyfills *)
(* lookup tests a substring of the key.  A returned string is modelled by  *)
(* the sequence of its lines (tags): "" is <<>>, one tag is <<tag>>.       *)
(***************************************************************************)
EXTENDS Integers, Sequences, FiniteSets, TLC

VARIABLES
    file,        \* content of the manifest file on disk
    _manifests,  \* DjangoViteAssetLoader._manifests: config key -> parsed manifest
    last,        \* the last call of a public operation and how it ended
    parses,      \* config key -> number of calls of _parse_manifest made for it
    threads      \* thread -> its position in a concurrent _get_manifest

vars == <<file, _manifests, last, parses, threads>>

(***************************************************************************)
(* Bounds of the model.                                                    *)
(***************************************************************************)

\* The interpreter's limit on nested calls: a deeper call raises RecursionError.
RecursionLimit == 4

\* The calls of _parse_manifest followed per configuration key.
MaxParses == 2

\* Logical paths (manifest keys): "m", "lp", "vlp"; "pl" is never a key.
KeyM   == <<"m">>
KeyLP  == <<"l", "p">>
KeyVLP == <<"v", "l", "p">>
KeyPL  == <<"p", "l">>

Keys  == {KeyM, KeyLP, KeyVLP}
Paths == Keys \cup {KeyPL}

CssX == <<"x.css">>
CssY == <<"y.css">>
CssPaths == {CssX, CssY}

DEFAULT_CONFIG_KEY == "default"
ConfigKeys == {DEFAULT_CONFIG_KEY, "dev", "unregistered"}

(***************************************************************************)
(* Sequence helpers.                                                       *)
(***************************************************************************)

Range(s) == {s[i] : i \in DOMAIN s}

\* Python's `needle in haystack` for strings: needle is a contiguous part.
IsSubstring(needle, hay) ==
    \E i \in 0..(Len(hay) - Len(needle)) :
        \A j \in 1..Len(needle) : hay[i + j] = needle[j]

(***************************************************************************)
(* Configuration: DjangoViteConfig, registered once by instance().         *)
(***************************************************************************)

DjangoViteConfig(dev_mode, prefix, manifest_path) ==
    [assets_path            |-> "assets",
     dev_mode               |-> dev_mode,
     dev_server_protocol    |-> "http",
     dev_server_host        |-> "localhost",
     dev_server_port        |-> "3000",
     ws_client_url          |-> "@vite/client",
     static_url_prefix      |-> prefix,
     legacy_polyfills_motif |-> KeyLP,
     manifest_path          |-> manifest_path,
     react_refresh_url      |-> "@react-refresh"]

\* self._configs after instance(): two registered configurations that read
\* the same manifest file, one in production and one in development mode.
_configs ==
    [k \in {DEFAULT_CONFIG_KEY, "dev"} |->
        IF k = "dev" THEN DjangoViteConfig(TRUE, "", "manifest.json")
        ELSE DjangoViteConfig(FALSE, "static", "manifest.json")]

\* urljoin(settings.STATIC_URL, prefix), with a trailing slash: kept as a term.
static_url(config) == <<"STATIC_URL", config.static_url_prefix, "/">>

static_root(config) ==
    IF config.dev_mode THEN <<config.assets_path>>
    ELSE <<"STATIC_ROOT", config.static_url_prefix>>

get_computed_manifest_path(config) ==
    IF config.manifest_path # "" THEN <<config.manifest_path>>
    ELSE Append(static_root(config), "manifest.json")

(***************************************************************************)
(* URL Resolver and Tag Generator.  urljoin and the static-files storage   *)
(* are library calls: a URL is kept as the term of the call that built it. *)
(***************************************************************************)

\* urljoin("protocol://host:port", urljoin(config.static_url, path))
_generate_vite_server_url(path, config) ==
    [fn     |-> "vite_server_url",
     server |-> <<config.dev_server_protocol, config.dev_server_host,
                  config.dev_server_port>>,
     base   |-> static_url(config),
     path   |-> path]

\* staticfiles_storage.url(urljoin(prefix + "/", path)), or of path alone
_generate_production_server_url(path, static_url_prefix) ==
    [fn     |-> "production_server_url",
     server |-> <<>>,
     base   |-> IF static_url_prefix # "" THEN <<static_url_prefix, "/">> ELSE <<>>,
     path   |-> path]

\* urljoin(static_url, file), the URL of the script tag of generate_vite_asset
StaticUrlJoin(static, path) ==
    [fn |-> "urljoin", server |-> <<>>, base |-> static, path |-> path]

\* {**defaults, **kwargs} on ordered dicts (sequences of <<key, value>>): a key
\* of kwargs that is a default keeps the default's position and takes the
\* caller's value; the other keys of kwargs follow in their order.
DictHas(d, k) == \E i \in DOMAIN d : d[i][1] = k
DictGet(d, k) == d[CHOOSE i \in DOMAIN d : d[i][1] = k][2]

DictMerge(defaults, kwargs) ==
    [i \in DOMAIN defaults |->
        IF DictHas(kwargs, defaults[i][1])
        THEN <<defaults[i][1], DictGet(kwargs, defaults[i][1])>>
        ELSE defaults[i]]
    \o SelectSeq(kwargs, LAMBDA kv : ~DictHas(defaults, kv[1]))

_generate_script_tag(src, attrs) ==
    [tag |-> "script", attrs |-> attrs, url |-> src]

_generate_stylesheet_tag(href) ==
    [tag |-> "stylesheet", attrs |-> <<>>, url |-> href]

_generate_stylesheet_preload_tag(href) ==
    [tag |-> "preload-style", attrs |-> <<>>, url |-> href]

_generate_preload_tag(href, attrs) ==
    [tag |-> "link", attrs |-> attrs, url |-> href]

\* tag_generator(url) of _generate_css_files_of_asset
ApplyTagGenerator(tag_generator, url) ==
    IF tag_generator = "_generate_stylesheet_preload_tag"
    THEN _generate_stylesheet_preload_tag(url)
    ELSE _generate_stylesheet_tag(url)

\* The attributes both operations give the modulepreload links.
PreloadAttrs ==
    << <<"type", "text/javascript">>, <<"crossorigin", "anonymous">>,
       <<"rel", "modulepreload">>, <<"as", "script">> >>

\* A returned URL (generate_vite_asset_url) as the one line of the result.
UrlLine(url) == [tag |-> "url", attrs |-> <<>>, url |-> url]

(***************************************************************************)
(* Manifest documents and their parsing.                                   *)
(* The file is [state, doc]: state "missing" (open fails), "malformed"     *)
(* (json.loads fails) or "json" with doc the document's items in order,    *)
(* each <<key, object>> with the object a record of its fields.            *)
(***************************************************************************)

RequiredFields == {"file", "src", "isEntry"}
EntryFields    == RequiredFields \cup {"css", "imports"}

\* DjangoViteManifest(**v): TypeError on a missing required or an unknown field.
ValidEntry(v) == RequiredFields \subseteq DOMAIN v /\ DOMAIN v \subseteq EntryFields

DjangoViteManifest(v) ==
    [file    |-> v.file,
     src     |-> v.src,
     isEntry |-> v.isEntry,
     css     |-> IF "css" \in DOMAIN v THEN v.css ELSE <<>>,
     imports |-> IF "imports" \in DOMAIN v THEN v.imports ELSE <<>>]

\* A parsed manifest is a dict in document order: a sequence of <<key, entry>>.
ManifestKeys(manifest) == {manifest[i][1] : i \in DOMAIN manifest}
ManifestGet(manifest, k) ==
    manifest[CHOOSE i \in DOMAIN manifest : manifest[i][1] = k][2]

\* _parse_manifest with the constructor's TypeError caught per entry: an entry
\* the constructor rejects is left out and the others make the manifest
ParseManifestSkipRejected(content) ==
    IF content.state # "json"
    THEN [ok |-> FALSE, manifest |-> <<>>]
    ELSE LET kept == SelectSeq(content.doc, LAMBDA kv : ValidEntry(kv[2])) IN
         [ok |-> TRUE,
          manifest |-> [i \in DOMAIN kept |->
                           <<kept[i][1], DjangoViteManifest(kept[i][2])>>]]

\* _parse_manifest: every exception of open/read/json.loads/the constructor
\* becomes the RuntimeError "Cannot read Vite manifest file at ...".
_parse_manifest(content) ==
    IF content.state # "json"
       \/ \E i \in DOMAIN content.doc : ~ValidEntry(content.doc[i][2])
    THEN [ok |-> FALSE, manifest |-> <<>>]
    ELSE [ok |-> TRUE,
          manifest |-> [i \in DOMAIN content.doc |->
                           <<content.doc[i][1],
                             DjangoViteManifest(content.doc[i][2])>>]]

\* _get_manifest without the test `config_key not in self._manifests`: a
\* parse at every call, its result replacing what the cache holds
GetManifestNoCache(manifests, content, config_key) ==
    LET parsed == _parse_manifest(content) IN
    IF parsed.ok
    THEN [ok |-> TRUE,
          manifests |-> [k \in DOMAIN manifests \cup {config_key} |->
                            IF k = config_key THEN parsed.manifest
                            ELSE manifests[k]],
          manifest |-> parsed.manifest, loads |-> 1]
    ELSE [ok |-> FALSE, manifests |-> manifests, manifest |-> <<>>, loads |-> 1]

\* _get_manifest: parse on the first access of a key, then the cached value.
\* manifests is the dict self._manifests: a function on the keys it holds.
_get_manifest(manifests, content, config_key) ==
    IF config_key \in DOMAIN manifests
    THEN [ok |-> TRUE, manifests |-> manifests,
          manifest |-> manifests[config_key], loads |-> 0]
    ELSE LET parsed == _parse_manifest(content) IN
         IF parsed.ok
         THEN [ok |-> TRUE,
               manifests |-> [k \in DOMAIN manifests \cup {config_key} |->
                                 IF k = config_key THEN parsed.manifest
                                 ELSE manifests[k]],
               manifest |-> parsed.manifest, loads |-> 1]
         ELSE [ok |-> FALSE, manifests |-> manifests,
               manifest |-> <<>>, loads |-> 1]

(***************************************************************************)
(* How a call ends.  outcome is "return" or the exception raised; tags is  *)
(* the local list `tags` when the call ended; walk is the result of the    *)
(* call's CSS walk ("none": no walk was started); loads counts the calls   *)
(* of _parse_manifest the call made.                                       *)
(***************************************************************************)

NoError == [kind |-> "none", path |-> <<>>, manifest_path |-> <<>>]

\* RuntimeError('Cannot find "<config_key>" configuration')
ConfigNotFound == [kind |-> "ConfigNotFound", path |-> <<>>, manifest_path |-> <<>>]

\* RuntimeError("Cannot read Vite manifest file at <manifest path> : ...")
ManifestReadError(config) ==
    [kind |-> "ManifestReadError", path |-> <<>>,
     manifest_path |-> get_computed_manifest_path(config)]

\* manifest[path] without the membership test before it: KeyError
AssetNotFoundAsKeyError(path, config) ==
    [kind |-> "KeyError", path |-> <<>>, manifest_path |-> <<>>]

\* RuntimeError("Cannot find <path> in Vite manifest at <manifest path>")
AssetNotFound(path, config) ==
    [kind |-> "AssetNotFound", path |-> path,
     manifest_path |-> get_computed_manifest_path(config)]

\* RuntimeError("Vite legacy polyfills not found in manifest at <manifest path>")
LegacyPolyfillsNotFound(config) ==
    [kind |-> "LegacyPolyfillsNotFound", path |-> <<>>,
     manifest_path |-> get_computed_manifest_path(config)]

\* An exception the code does not raise itself: KeyError, AttributeError,
\* TypeError, RecursionError.
Uncaught(kind) == [kind |-> kind, path |-> <<>>, manifest_path |-> <<>>]

NoWalk == [st |-> "none", tags |-> <<>>, ap |-> <<>>]

Returned(ret, walk, loads) ==
    [outcome |-> "return", error |-> NoError, ret |-> ret, tags |-> ret,
     walk |-> walk, loads |-> loads]

Raised(error, tags, walk, loads) ==
    [outcome |-> "raise", error |-> error, ret |-> <<>>, tags |-> tags,
     walk |-> walk, loads |-> loads]

(***************************************************************************)
(* The CSS walk: _generate_css_files_of_asset.                             *)
(***************************************************************************)

\* lines 336-343, without the membership test: every css path gets a tag
RECURSIVE CssLoopNoDedup(_, _, _, _)
CssLoopNoDedup(css, already_processed, tag_generator, config) ==
    IF css = <<>> THEN [tags |-> <<>>, ap |-> already_processed]
    ELSE LET css_path == Head(css)
             url  == _generate_production_server_url(css_path,
                                                     config.static_url_prefix)
             rest == CssLoopNoDedup(Tail(css), Append(already_processed, css_path),
                                    tag_generator, config)
         IN [tags |-> <<ApplyTagGenerator(tag_generator, url)>> \o rest.tags,
             ap |-> rest.ap]

\* for css_path in manifest_entry.css: a tag unless css_path is in
\* already_processed; css_path is appended to already_processed either way.
RECURSIVE CssLoop(_, _, _, _)
CssLoop(css, already_processed, tag_generator, config) ==
    IF css = <<>> THEN [tags |-> <<>>, ap |-> already_processed]
    ELSE LET css_path == Head(css)
             url  == _generate_production_server_url(css_path,
                                                     config.static_url_prefix)
             here == IF css_path \in Range(already_processed) THEN <<>>
                     ELSE <<ApplyTagGenerator(tag_generator, url)>>
             rest == CssLoop(Tail(css), Append(already_processed, css_path),
                             tag_generator, config)
         IN [tags |-> here \o rest.tags, ap |-> rest.ap]

RECURSIVE _generate_css_files_of_asset(_, _, _, _, _, _)
RECURSIVE ImportsLoop(_, _, _, _, _, _)

\* for import_path in manifest_entry.imports: tags.extend(<recursive call>);
\* an exception of a recursive call ends the loop.
ImportsLoop(manifest, config, imports, already_processed, tag_generator, depth) ==
    IF imports = <<>>
    THEN [st |-> "ok", tags |-> <<>>, ap |-> already_processed]
    ELSE LET first == _generate_css_files_of_asset(
                          manifest, config, Head(imports), already_processed,
                          tag_generator, depth)
         IN IF first.st # "ok" THEN first
            ELSE LET rest == ImportsLoop(manifest, config, Tail(imports), first.ap,
                                         tag_generator, depth)
                 IN IF rest.st # "ok" THEN rest
                    ELSE [st |-> "ok", tags |-> first.tags \o rest.tags,
                          ap |-> rest.ap]

\* depth is the number of nested calls of the walk, this one included: the
\* interpreter raises RecursionError beyond RecursionLimit.  manifest[path]
\* raises KeyError for a path that is no key.
_generate_css_files_of_asset(manifest, config, path, already_processed, tag_generator, depth) ==
    IF depth > RecursionLimit
    THEN [st |-> "RecursionError", tags |-> <<>>, ap |-> already_processed]
    ELSE IF path \notin ManifestKeys(manifest)
    THEN [st |-> "KeyError", tags |-> <<>>, ap |-> already_processed]
    ELSE LET manifest_entry == ManifestGet(manifest, path)
             deps == ImportsLoop(manifest, config, manifest_entry.imports,
                                 already_processed, tag_generator, depth + 1)
         IN IF deps.st # "ok" THEN deps
            ELSE LET own == CssLoop(manifest_entry.css, deps.ap, tag_generator,
                                    config)
                 IN [st |-> "ok", tags |-> deps.tags \o own.tags, ap |-> own.ap]

_load_css_files_of_asset(manifest, config, path, already_processed) ==
    _generate_css_files_of_asset(manifest, config, path, already_processed,
                                 "_generate_stylesheet_tag", 1)

_preload_css_files_of_asset(manifest, config, path, already_processed) ==
    _generate_css_files_of_asset(manifest, config, path, already_processed,
                                 "_generate_stylesheet_preload_tag", 1)

(***************************************************************************)
(* The public operations of DjangoViteAssetLoader.  Each takes the cache   *)
(* (self._manifests) and the manifest file's content and gives how the     *)
(* call ends (res) and the cache it leaves (manifests).                    *)
(***************************************************************************)

End(res, manifests) == [res |-> res, manifests |-> manifests]

generate_vite_asset(manifests, content, path, config_key, kwargs) ==
    IF config_key \notin DOMAIN _configs
    THEN End(Raised(ConfigNotFound, <<>>, NoWalk, 0), manifests)
    ELSE
    LET config == _configs[config_key] IN
    IF config.dev_mode
    THEN End(Returned(<<_generate_script_tag(
                          _generate_vite_server_url(path, config),
                          DictMerge(<< <<"type", "module">> >>, kwargs))>>,
                      NoWalk, 0),
             manifests)
    ELSE
    LET got == _get_manifest(manifests, content, config_key) IN
    IF ~got.ok
    THEN End(Raised(ManifestReadError(config), <<>>, NoWalk, got.loads),
             got.manifests)
    ELSE IF path \notin ManifestKeys(got.manifest)
    THEN End(Raised(AssetNotFound(path, config), <<>>, NoWalk, got.loads),
             got.manifests)
    ELSE
    LET scripts_attrs ==
            DictMerge(<< <<"type", "module">>, <<"crossorigin", "">> >>, kwargs)
        walk == _load_css_files_of_asset(got.manifest, config, path, <<>>)
    IN
    IF walk.st # "ok"
    THEN End(Raised(Uncaught(walk.st), <<>>, walk, got.loads), got.manifests)
    ELSE
    LET tags == Append(walk.tags,
                       _generate_script_tag(
                           StaticUrlJoin(static_url(config),
                                         ManifestGet(got.manifest, path).file),
                           scripts_attrs))
    IN  \* `for dep in manifest.imports`: manifest is the dict of all entries,
        \* which has no attribute `imports`: AttributeError, for every path.
        End(Raised(Uncaught("AttributeError"), tags, walk, got.loads),
            got.manifests)

\* for dependency_path in manifest_entry.imports: one modulepreload link each
ImportPreloadTags(manifest, config, imports) ==
    [i \in DOMAIN imports |->
        _generate_preload_tag(
            _generate_production_server_url(ManifestGet(manifest, imports[i]).file,
                                            config.static_url_prefix),
            PreloadAttrs)]

preload_vite_asset(manifests, content, path, config_key) ==
    IF config_key \notin DOMAIN _configs
    THEN End(Raised(ConfigNotFound, <<>>, NoWalk, 0), manifests)
    ELSE
    LET config == _configs[config_key]
        got == _get_manifest(manifests, content, config_key)   \* in both modes
    IN
    IF ~got.ok
    THEN End(Raised(ManifestReadError(config), <<>>, NoWalk, got.loads),
             got.manifests)
    ELSE IF path \notin ManifestKeys(got.manifest)
    THEN \* manifest_entry = manifest[path], before any test
         End(Raised(Uncaught("KeyError"), <<>>, NoWalk, got.loads), got.manifests)
    ELSE IF ~config.dev_mode
    THEN \* `if not config.dev_mode: return ""`
         End(Returned(<<>>, NoWalk, got.loads), got.manifests)
    ELSE
    LET manifest_entry == ManifestGet(got.manifest, path)
        own == _generate_preload_tag(
                   _generate_production_server_url(manifest_entry.file,
                                                   config.static_url_prefix),
                   PreloadAttrs)
        walk == _preload_css_files_of_asset(got.manifest, config, path, <<>>)
    IN
    IF walk.st # "ok"
    THEN End(Raised(Uncaught(walk.st), <<own>>, walk, got.loads), got.manifests)
    ELSE End(Returned(<<own>> \o walk.tags
                      \o ImportPreloadTags(got.manifest, config,
                                           manifest_entry.imports),
                      walk, got.loads),
             got.manifests)

\* generate_vite_asset_url with the manifest fetched before the dev-mode test
AssetUrlManifestFirst(manifests, content, path, config_key) ==
    IF config_key \notin DOMAIN _configs
    THEN End(Raised(ConfigNotFound, <<>>, NoWalk, 0), manifests)
    ELSE
    LET config == _configs[config_key]
        got == _get_manifest(manifests, content, config_key)
    IN
    IF ~got.ok
    THEN End(Raised(ManifestReadError(config), <<>>, NoWalk, got.loads),
             got.manifests)
    ELSE IF config.dev_mode
    THEN End(Returned(<<UrlLine(_generate_vite_server_url(path, config))>>,
                      NoWalk, got.loads),
             got.manifests)
    ELSE IF path \notin ManifestKeys(got.manifest)
    THEN End(Raised(AssetNotFound(path, config), <<>>, NoWalk, got.loads),
             got.manifests)
    ELSE End(Raised(Uncaught("AttributeError"), <<>>, NoWalk, got.loads),
             got.manifests)

generate_vite_asset_url(manifests, content, path, config_key) ==
    IF config_key \notin DOMAIN _configs
    THEN End(Raised(ConfigNotFound, <<>>, NoWalk, 0), manifests)
    ELSE
    LET config == _configs[config_key] IN
    IF config.dev_mode
    THEN End(Returned(<<UrlLine(_generate_vite_server_url(path, config))>>,
                      NoWalk, 0),
             manifests)
    ELSE
    LET got == _get_manifest(manifests, content, config_key) IN
    IF ~got.ok
    THEN End(Raised(ManifestReadError(config), <<>>, NoWalk, got.loads),
             got.manifests)
    ELSE IF path \notin ManifestKeys(got.manifest)
    THEN End(Raised(AssetNotFound(path, config), <<>>, NoWalk, got.loads),
             got.manifests)
    ELSE \* self._manifest[path]["file"]: the loader has no attribute
         \* `_manifest` (the cache is `_manifests`): AttributeError.
         End(Raised(Uncaught("AttributeError"), <<>>, NoWalk, got.loads),
             got.manifests)

\* for path, content in manifest.items(): the first key, in the dict's order,
\* that contains the motif; 0 when the loop ends without one.
FirstPolyfills(manifest, motif) ==
    LET hits == {i \in DOMAIN manifest : IsSubstring(motif, manifest[i][1])}
    IN IF hits = {} THEN 0 ELSE CHOOSE i \in hits : \A j \in hits : i <= j

generate_vite_legacy_polyfills(manifests, content, config_key, kwargs) ==
    IF config_key \notin DOMAIN _configs
    THEN End(Raised(ConfigNotFound, <<>>, NoWalk, 0), manifests)
    ELSE
    LET config == _configs[config_key]
        got == _get_manifest(manifests, content, config_key)   \* in both modes
    IN
    IF ~got.ok
    THEN End(Raised(ManifestReadError(config), <<>>, NoWalk, got.loads),
             got.manifests)
    ELSE IF config.dev_mode
    THEN End(Returned(<<>>, NoWalk, got.loads), got.manifests)
    ELSE IF FirstPolyfills(got.manifest, config.legacy_polyfills_motif) = 0
    THEN End(Raised(LegacyPolyfillsNotFound(config), <<>>, NoWalk, got.loads),
             got.manifests)
    ELSE \* content["file"]: content is a DjangoViteManifest, a named tuple,
         \* which takes no string index: TypeError.
         End(Raised(Uncaught("TypeError"), <<>>, NoWalk, got.loads),
             got.manifests)

generate_vite_legacy_asset(manifests, content, path, config_key, kwargs) ==
    IF config_key \notin DOMAIN _configs
    THEN End(Raised(ConfigNotFound, <<>>, NoWalk, 0), manifests)
    ELSE
    LET config == _configs[config_key] IN
    IF config.dev_mode
    THEN End(Returned(<<>>, NoWalk, 0), manifests)
    ELSE
    LET got == _get_manifest(manifests, content, config_key) IN
    IF ~got.ok
    THEN End(Raised(ManifestReadError(config), <<>>, NoWalk, got.loads),
             got.manifests)
    ELSE IF path \notin ManifestKeys(got.manifest)
    THEN End(Raised(AssetNotFound(path, config), <<>>, NoWalk, got.loads),
             got.manifests)
    ELSE End(Returned(<<_generate_script_tag(
                          _generate_production_server_url(
                              ManifestGet(got.manifest, path).file,
                              config.static_url_prefix),
                          DictMerge(<< <<"nomodule", "">>, <<"crossorigin", "">> >>,
                                    kwargs))>>,
                      NoWalk, got.loads),
             got.manifests)

\* generate_vite_ws_client, a classmethod: cls._get_config(config_key) calls
\* the plain function _get_config(self, config_key) with config_key in the
\* place of self and nothing for config_key: TypeError, before any lookup.
generate_vite_ws_client(manifests, config_key, kwargs) ==
    End(Raised(Uncaught("TypeError"), <<>>, NoWalk, 0), manifests)

\* generate_vite_react_refresh_url, a classmethod whose first parameter is
\* named self: self._get_config(config_key) is the same call on the class.
generate_vite_react_refresh_url(manifests, config_key) ==
    End(Raised(Uncaught("TypeError"), <<>>, NoWalk, 0), manifests)

(***************************************************************************)
(* The manifest files considered.                                          *)
(***************************************************************************)

\* The built file of a key (its fingerprinted name).
BuiltFile(k) == <<"built">> \o k

JsonEntry(k, imports, css) ==
    [file |-> BuiltFile(k), src |-> k, isEntry |-> TRUE,
     css |-> css, imports |-> imports]

\* The keys of a document in its order: every ordering of every subset of Keys.
Orders ==
    {o \in UNION {[1..n -> Keys] : n \in 0..Cardinality(Keys)} :
        \A i, j \in DOMAIN o : i # j => o[i] # o[j]}

\* The document with the keys o, in that order, the imports imp[k] and the
\* css list css[k] of each key k.
Doc(o, imp, css) ==
    [i \in DOMAIN o |-> <<o[i], JsonEntry(o[i], imp[o[i]], css[o[i]])>>]

JsonFile(doc) == [state |-> "json", doc |-> doc]

\* Spec: every key order, at most one import in the whole document, and the
\* css lists of the example (an entry and its import share a stylesheet).
OneImportGraphs ==
    {[k \in Keys |-> <<>>]}
    \cup {[k \in Keys |-> IF k = from THEN <<to>> ELSE <<>>] :
             from \in Keys, to \in Keys}

ExampleCss == [k \in Keys |-> IF k = KeyM THEN <<CssY, CssX>> ELSE <<CssX>>]

\* Documents json.loads or the DjangoViteManifest constructor treat specially:
\* an entry without its optional fields, one without `file`, one with a field
\* the constructor does not know.
BareEntry     == [file |-> BuiltFile(KeyM), src |-> KeyM, isEntry |-> TRUE]
NoFileEntry   == [src |-> KeyM, isEntry |-> TRUE]
UnknownFieldEntry ==
    [file |-> BuiltFile(KeyM), src |-> KeyM, isEntry |-> TRUE,
     dynamicImports |-> <<>>]

Files ==
    {[state |-> "missing", doc |-> <<>>], [state |-> "malformed", doc |-> <<>>]}
    \cup {JsonFile(Doc(o, imp, ExampleCss)) : o \in Orders, imp \in OneImportGraphs}
    \cup {JsonFile(<< <<KeyM, e>> >>) :
             e \in {BareEntry, NoFileEntry, UnknownFieldEntry}}

\* SpecWalk: the keys in one order, with or without the last one; every entry
\* with up to two distinct imports (among them itself and a key the document
\* lacks); stylesheets shared between entries, in two arrangements.
KeyOrder == <<KeyM, KeyLP, KeyVLP>>

ImportLists ==
    {<<>>} \cup {<<k>> : k \in Keys} \cup {p \in Keys \X Keys : p[1] # p[2]}

SpreadCss == [k \in Keys |-> IF k = KeyVLP THEN <<CssY>> ELSE <<CssX, CssY>>]

CssAssignments == {ExampleCss, SpreadCss}

WalkFiles ==
    {JsonFile(Doc(o, imp, css)) :
        o \in {KeyOrder, SubSeq(KeyOrder, 1, 2)},
        imp \in [Keys -> ImportLists], css \in CssAssignments}

\* The extra attributes (**kwargs) the calls are made with.
KwargsChoices == {<<>>}

(***************************************************************************)
(* The state machine: one action per template tag.                         *)
(***************************************************************************)

NoCall ==
    [op |-> "none", path |-> <<>>, config_key |-> "", kwargs |-> <<>>,
     outcome |-> "none", error |-> NoError, ret |-> <<>>, tags |-> <<>>,
     walk |-> NoWalk, loads |-> 0]

Called(op, path, config_key, kwargs, res) ==
    [op |-> op, path |-> path, config_key |-> config_key, kwargs |-> kwargs,
     outcome |-> res.outcome, error |-> res.error, ret |-> res.ret,
     tags |-> res.tags, walk |-> res.walk, loads |-> res.loads]

\* No _parse_manifest call yet; no thread inside _get_manifest.
NoParses == [c \in ConfigKeys |-> 0]

Threads == {"t1", "t2"}

Idle == [pc |-> "idle", config_key |-> "", parsed |-> <<>>, ret |-> <<>>]

NoThreads == [t \in Threads |-> Idle]

\* A call made outside any concurrency: its _parse_manifest calls are counted.
Counted(config_key, loads) ==
    /\ parses[config_key] + loads <= MaxParses
    /\ parses' = [parses EXCEPT ![config_key] = @ + loads]
    /\ UNCHANGED threads

Init ==
    /\ file \in Files
    /\ _manifests = <<>>
    /\ last = NoCall
    /\ parses = NoParses
    /\ threads = NoThreads

vite_asset(path, config_key, kwargs) ==
    LET r == generate_vite_asset(_manifests, file, path, config_key, kwargs) IN
    /\ _manifests' = r.manifests
    /\ last' = Called("vite_asset", path, config_key, kwargs, r.res)
    /\ Counted(config_key, r.res.loads)
    /\ UNCHANGED file

vite_preload_asset(path, config_key) ==
    LET r == preload_vite_asset(_manifests, file, path, config_key) IN
    /\ _manifests' = r.manifests
    /\ last' = Called("vite_preload_asset", path, config_key, <<>>, r.res)
    /\ Counted(config_key, r.res.loads)
    /\ UNCHANGED file

vite_asset_url(path, config_key) ==
    LET r == generate_vite_asset_url(_manifests, file, path, config_key) IN
    /\ _manifests' = r.manifests
    /\ last' = Called("vite_asset_url", path, config_key, <<>>, r.res)
    /\ Counted(config_key, r.res.loads)
    /\ UNCHANGED file

vite_legacy_polyfills(config_key, kwargs) ==
    LET r == generate_vite_legacy_polyfills(_manifests, file, config_key, kwargs) IN
    /\ _manifests' = r.manifests
    /\ last' = Called("vite_legacy_polyfills", <<>>, config_key, kwargs, r.res)
    /\ Counted(config_key, r.res.loads)
    /\ UNCHANGED file

vite_legacy_asset(path, config_key, kwargs) ==
    LET r == generate_vite_legacy_asset(_manifests, file, path, config_key, kwargs) IN
    /\ _manifests' = r.manifests
    /\ last' = Called("vite_legacy_asset", path, config_key, kwargs, r.res)
    /\ Counted(config_key, r.res.loads)
    /\ UNCHANGED file

vite_hmr_client(config_key, kwargs) ==
    LET r == generate_vite_ws_client(_manifests, config_key, kwargs) IN
    /\ _manifests' = r.manifests
    /\ last' = Called("vite_hmr_client", <<>>, config_key, kwargs, r.res)
    /\ Counted(config_key, r.res.loads)
    /\ UNCHANGED file

vite_react_refresh(config_key) ==
    LET r == generate_vite_react_refresh_url(_manifests, config_key) IN
    /\ _manifests' = r.manifests
    /\ last' = Called("vite_react_refresh", <<>>, config_key, <<>>, r.res)
    /\ Counted(config_key, r.res.loads)
    /\ UNCHANGED file

Next ==
    \/ \E path \in Paths, config_key \in ConfigKeys, kwargs \in KwargsChoices :
           vite_asset(path, config_key, kwargs)
    \/ \E path \in Paths, config_key \in ConfigKeys :
           vite_preload_asset(path, config_key)
    \/ \E path \in Paths, config_key \in ConfigKeys :
           vite_asset_url(path, config_key)
    \/ \E config_key \in ConfigKeys, kwargs \in KwargsChoices :
           vite_legacy_polyfills(config_key, kwargs)
    \/ \E path \in Paths, config_key \in ConfigKeys, kwargs \in KwargsChoices :
           vite_legacy_asset(path, config_key, kwargs)
    \/ \E config_key \in ConfigKeys, kwargs \in KwargsChoices :
           vite_hmr_client(config_key, kwargs)
    \/ \E config_key \in ConfigKeys : vite_react_refresh(config_key)

Spec == Init /\ [][Next]_vars

\* The operations that walk the imports, over the manifests of WalkFiles.
InitWalk ==
    /\ file \in WalkFiles
    /\ _manifests = <<>>
    /\ last = NoCall
    /\ parses = NoParses
    /\ threads = NoThreads

NextWalk ==
    \/ \E path \in Paths : vite_asset(path, DEFAULT_CONFIG_KEY, <<>>)
    \/ \E path \in Paths : vite_preload_asset(path, "dev")

SpecWalk == InitWalk /\ [][NextWalk]_vars

\* The manifest file over the life of the process: absent, unreadable as
\* JSON, two builds of the same entry (the second with a new built file and a
\* second key), and documents with an entry the constructor rejects (a
\* required field missing, an unknown field), alone or after a valid entry.
RebuiltEntry ==
    [file |-> <<"rebuilt">> \o KeyM, src |-> KeyM, isEntry |-> TRUE,
     css |-> <<CssX>>, imports |-> <<>>]
NoSrcEntry     == [file |-> BuiltFile(KeyM), isEntry |-> TRUE]
NoIsEntryEntry == [file |-> BuiltFile(KeyM), src |-> KeyM]

RejectedEntries == {NoFileEntry, NoSrcEntry, NoIsEntryEntry, UnknownFieldEntry}

FirstBuild  == JsonFile(<< <<KeyM, JsonEntry(KeyM, <<>>, <<CssX>>)>> >>)
SecondBuild ==
    JsonFile(<< <<KeyM, RebuiltEntry>>, <<KeyLP, JsonEntry(KeyLP, <<>>, <<>>)>> >>)

LoadFiles ==
    {[state |-> "missing", doc |-> <<>>], [state |-> "malformed", doc |-> <<>>],
     FirstBuild, SecondBuild}
    \cup {JsonFile(<< <<KeyM, e>> >>) : e \in RejectedEntries}
    \cup {JsonFile(<< <<KeyM, JsonEntry(KeyM, <<>>, <<CssX>>)>>, <<KeyLP, e>> >>) :
             e \in RejectedEntries}

\* The file at manifest_path is written anew (a build, a deployment): the
\* next open() of _parse_manifest reads the new content.
WriteManifestFile(content) ==
    /\ content # file
    /\ file' = content
    /\ UNCHANGED <<_manifests, last, parses, threads>>

\* The operations that read the manifest, with the file changing between calls.
InitLoad ==
    /\ file \in LoadFiles
    /\ _manifests = <<>>
    /\ last = NoCall
    /\ parses = NoParses
    /\ threads = NoThreads

NextLoad ==
    \/ \E path \in {KeyM, KeyPL}, config_key \in ConfigKeys :
           vite_asset_url(path, config_key)
    \/ \E path \in {KeyM, KeyPL}, config_key \in ConfigKeys :
           vite_legacy_asset(path, config_key, <<>>)
    \/ \E path \in {KeyM, KeyPL}, config_key \in ConfigKeys :
           vite_preload_asset(path, config_key)
    \/ \E config_key \in ConfigKeys : vite_legacy_polyfills(config_key, <<>>)
    \/ \E content \in LoadFiles : WriteManifestFile(content)

SpecLoad == InitLoad /\ [][NextLoad]_vars

(***************************************************************************)
(* _get_manifest run by several request threads.  Nothing in the loader    *)
(* takes a lock, so another thread may run between the membership test,    *)
(* the call of _parse_manifest, the store into self._manifests and the     *)
(* final read.  pc is the statement a thread executes next.                *)
(***************************************************************************)

\* Thread t calls self._get_manifest(config_key).
get_manifest_call(t, config_key) ==
    /\ threads[t].pc \in {"idle", "done", "raised"}
    /\ threads' = [threads EXCEPT ![t] = [pc |-> "test", config_key |-> config_key,
                                         parsed |-> <<>>, ret |-> <<>>]]
    /\ UNCHANGED <<file, _manifests, last, parses>>

\* if config_key not in self._manifests:
get_manifest_test(t) ==
    /\ threads[t].pc = "test"
    /\ threads' = [threads EXCEPT ![t].pc =
                      IF threads[t].config_key \in DOMAIN _manifests
                      THEN "return" ELSE "parse"]
    /\ UNCHANGED <<file, _manifests, last, parses>>

\* self._parse_manifest(config_key): the value to store, or the RuntimeError.
get_manifest_parse(t) ==
    LET parsed == _parse_manifest(file) IN
    /\ threads[t].pc = "parse"
    /\ parses[threads[t].config_key] < MaxParses
    /\ parses' = [parses EXCEPT ![threads[t].config_key] = @ + 1]
    /\ threads' = [threads EXCEPT ![t].pc = IF parsed.ok THEN "store" ELSE "raised",
                                  ![t].parsed = parsed.manifest]
    /\ UNCHANGED <<file, _manifests, last>>

\* self._manifests[config_key] = <the parsed manifest>
get_manifest_store(t) ==
    /\ threads[t].pc = "store"
    /\ _manifests' = [k \in DOMAIN _manifests \cup {threads[t].config_key} |->
                         IF k = threads[t].config_key THEN threads[t].parsed
                         ELSE _manifests[k]]
    /\ threads' = [threads EXCEPT ![t].pc = "return"]
    /\ UNCHANGED <<file, last, parses>>

\* return self._manifests[config_key]
get_manifest_return(t) ==
    /\ threads[t].pc = "return"
    /\ threads' = [threads EXCEPT ![t].pc = "done",
                                  ![t].ret = _manifests[threads[t].config_key]]
    /\ UNCHANGED <<file, _manifests, last, parses>>

\* Readable manifests only: here a second parse for a key is never the
\* repetition of a failed one.
ThreadFiles == {FirstBuild, SecondBuild}

InitThreads ==
    /\ file \in ThreadFiles
    /\ _manifests = <<>>
    /\ last = NoCall
    /\ parses = NoParses
    /\ threads = NoThreads

NextThreads ==
    \/ \E t \in Threads, config_key \in DOMAIN _configs :
           get_manifest_call(t, config_key)
    \/ \E t \in Threads : get_manifest_test(t)
    \/ \E t \in Threads : get_manifest_parse(t)
    \/ \E t \in Threads : get_manifest_store(t)
    \/ \E t \in Threads : get_manifest_return(t)
    \/ \E content \in ThreadFiles : WriteManifestFile(content)

SpecThreads == InitThreads /\ [][NextThreads]_vars

\* Calls with extra attributes (**kwargs): none, a new key, a default key of
\* each operation overridden, new keys before and after an overridden one.
AttrsChoices ==
    {<<>>,
     << <<"defer", "">> >>,
     << <<"crossorigin", "anonymous">> >>,
     << <<"defer", "">>, <<"nomodule", "n">> >>,
     << <<"type", "text/x">>, <<"id", "app">> >>,
     << <<"id", "app">>, <<"crossorigin", "anonymous">>, <<"defer", "">> >>}

InitAttrs ==
    /\ file \in {FirstBuild, SecondBuild}
    /\ _manifests = <<>>
    /\ last = NoCall
    /\ parses = NoParses
    /\ threads = NoThreads

NextAttrs ==
    \/ \E path \in {KeyM, KeyPL}, config_key \in ConfigKeys, kwargs \in AttrsChoices :
           vite_asset(path, config_key, kwargs)
    \/ \E path \in {KeyM, KeyPL}, config_key \in ConfigKeys, kwargs \in AttrsChoices :
           vite_legacy_asset(path, config_key, kwargs)
    \/ \E config_key \in ConfigKeys, kwargs \in AttrsChoices :
           vite_legacy_polyfills(config_key, kwargs)

SpecAttrs == InitAttrs /\ [][NextAttrs]_vars

(***************************************************************************)
(* Properties.                                                             *)
(***************************************************************************)

Registered(config_key) == config_key \in DOMAIN _configs
InProduction(config_key) ==
    Registered(config_key) /\ ~_configs[config_key].dev_mode
InDevMode(config_key) ==
    Registered(config_key) /\ _configs[config_key].dev_mode

\* The last call's configuration has its manifest loaded / and path is a key.
LastLoaded == last.config_key \in DOMAIN _manifests
LastManifest == _manifests[last.config_key]
LastPathIsKey == LastLoaded /\ last.path \in ManifestKeys(LastManifest)
LastPathIsNoKey == LastLoaded /\ last.path \notin ManifestKeys(LastManifest)

\* What a tag is: a module script, a nomodule script, a stylesheet link, a
\* preload-as-style link, a modulepreload link, a bare URL.
Kind(t) ==
    IF t.tag = "link"
    THEN (IF DictHas(t.attrs, "rel") THEN DictGet(t.attrs, "rel") ELSE "link")
    ELSE IF t.tag = "script"
    THEN (IF DictHas(t.attrs, "nomodule") THEN "nomodule script"
          ELSE IF DictHas(t.attrs, "type") /\ DictGet(t.attrs, "type") = "module"
          THEN "module script"
          ELSE "script")
    ELSE t.tag

\* A tag sequence as <<kind, path the URL was built from>> pairs.
Lines(tags) == [i \in DOMAIN tags |-> <<Kind(tags[i]), tags[i].url.path>>]

\* The css paths of the subtree of path, imports first (in their order), then
\* the entry's own; nothing for a path that is no key.  fuel bounds the depth.
RECURSIVE RefFlatCss(_, _, _)
RECURSIVE RefFlatCssOfAll(_, _, _)
RefFlatCssOfAll(manifest, paths, fuel) ==
    IF paths = <<>> THEN <<>>
    ELSE RefFlatCss(manifest, Head(paths), fuel)
         \o RefFlatCssOfAll(manifest, Tail(paths), fuel)

RefFlatCss(manifest, path, fuel) ==
    IF fuel = 0 \/ path \notin ManifestKeys(manifest) THEN <<>>
    ELSE RefFlatCssOfAll(manifest, ManifestGet(manifest, path).imports, fuel - 1)
         \o ManifestGet(manifest, path).css

\* s with only the first occurrence of each element.
RECURSIVE RefFirstOccurrences(_)
RefFirstOccurrences(s) ==
    IF s = <<>> THEN <<>>
    ELSE LET front == SubSeq(s, 1, Len(s) - 1) IN
         IF s[Len(s)] \in Range(front) THEN RefFirstOccurrences(front)
         ELSE Append(RefFirstOccurrences(front), s[Len(s)])

RefTraversal(manifest, path) ==
    RefFlatCss(manifest, path, Cardinality(ManifestKeys(manifest)))

\* The transitive CSS chain of path.
RefCssChain(manifest, path) == RefFirstOccurrences(RefTraversal(manifest, path))

\* The built file of an import (nothing when the import is no key).
RefFileOf(manifest, k) ==
    IF k \in ManifestKeys(manifest) THEN ManifestGet(manifest, k).file ELSE <<>>

RefDirectImports(manifest, path) ==
    LET imports == ManifestGet(manifest, path).imports IN
    [i \in DOMAIN imports |-> <<"modulepreload", RefFileOf(manifest, imports[i])>>]

NoDuplicates(s) == \A i, j \in DOMAIN s : i # j => s[i] # s[j]

\* C1: in production mode, vite_asset on a key of the manifest returns the
\* stylesheet tags of the key's transitive CSS chain, then one module script
\* tag for the entry's file, then one modulepreload link per direct import.
C1_AssetTags ==
    (last.op = "vite_asset" /\ InProduction(last.config_key) /\ LastPathIsKey)
    => /\ last.outcome = "return"
       /\ Lines(last.ret) =
              [i \in DOMAIN RefCssChain(LastManifest, last.path) |->
                  <<"stylesheet", RefCssChain(LastManifest, last.path)[i]>>]
              \o << <<"module script", ManifestGet(LastManifest, last.path).file>> >>
              \o RefDirectImports(LastManifest, last.path)

\* C2: a CSS walk that returns has emitted every css path at most once, and
\* its tags are the first occurrences of the css paths in the traversal that
\* puts the css of an entry's imports (recursively, in imports order) before
\* the entry's own.
C2_CssChainOnceInOrder ==
    (last.walk.st = "ok" /\ LastPathIsKey)
    => LET emitted == [i \in DOMAIN last.walk.tags |-> last.walk.tags[i].url.path]
       IN /\ NoDuplicates(emitted)
          /\ emitted = RefCssChain(LastManifest, last.path)

\* C2 witness: a walk returned for an entry with two imports, and a css path
\* that occurs more than once in the traversal was emitted once.
C2_Witness ==
    /\ last.op = "vite_asset"
    /\ last.walk.st = "ok"
    /\ LastPathIsKey
    /\ Len(ManifestGet(LastManifest, last.path).imports) = 2
    /\ Len(last.walk.tags) = 2
    /\ Len(RefTraversal(LastManifest, last.path)) > 3

\* C3: the CSS walk ends by itself on every manifest, cyclic ones included: by
\* returning or by an error of the code, never by exhausting the call stack.
C3_WalkTerminates == last.walk.st # "RecursionError"

\* C4: in dev mode vite_asset returns one module script tag for the dev-server
\* URL of the path, and vite_asset_url returns that URL alone, for every path
\* and every state of the manifest file; neither parses the manifest nor
\* changes the manifest cache.
C4_DevModeLeavesManifestStore ==
    [][(last'.op \in {"vite_asset", "vite_asset_url"}
        /\ InDevMode(last'.config_key))
       => /\ _manifests' = _manifests
          /\ last'.loads = 0
          /\ last'.outcome = "return"
          /\ Lines(last'.ret) =
                 << <<IF last'.op = "vite_asset" THEN "module script" ELSE "url",
                      last'.path>> >>
          /\ last'.ret[1].url.fn = "vite_server_url"
          /\ last'.ret[1].url.server =
                 <<_configs[last'.config_key].dev_server_protocol,
                   _configs[last'.config_key].dev_server_host,
                   _configs[last'.config_key].dev_server_port>>]_vars

\* C4 witness: vite_asset returned in dev mode while the manifest file is
\* missing and nothing is cached.
C4_Witness ==
    /\ last.op = "vite_asset"
    /\ InDevMode(last.config_key)
    /\ last.outcome = "return"
    /\ file.state = "missing"
    /\ DOMAIN _manifests = {}

\* C5: in dev mode vite_preload_asset, vite_legacy_asset and
\* vite_legacy_polyfills return the empty string, for every path and every
\* state of the manifest file.
C5_DevModeEmptyString ==
    (last.op \in {"vite_preload_asset", "vite_legacy_asset", "vite_legacy_polyfills"}
     /\ InDevMode(last.config_key))
    => (last.outcome = "return" /\ last.ret = <<>>)

\* C6: in production mode, vite_preload_asset on a key of the manifest returns
\* a modulepreload link for the entry's file, then one preload-as-style link
\* per css path of its transitive CSS chain, then one modulepreload link per
\* direct import.
C6_PreloadTags ==
    (last.op = "vite_preload_asset" /\ InProduction(last.config_key)
     /\ LastPathIsKey)
    => /\ last.outcome = "return"
       /\ Lines(last.ret) =
              << <<"modulepreload", ManifestGet(LastManifest, last.path).file>> >>
              \o [i \in DOMAIN RefCssChain(LastManifest, last.path) |->
                     <<"preload-style", RefCssChain(LastManifest, last.path)[i]>>]
              \o RefDirectImports(LastManifest, last.path)

\* C7: in production mode, vite_asset_url on a key of the parsed manifest
\* returns the production URL of the key's file, and nothing else.
C7_AssetUrlOfEveryKey ==
    (last.op = "vite_asset_url" /\ InProduction(last.config_key) /\ LastPathIsKey)
    => /\ last.outcome = "return"
       /\ Lines(last.ret) =
              << <<"url", ManifestGet(LastManifest, last.path).file>> >>
       /\ last.ret[1].url.fn = "production_server_url"

\* C8: in production mode, vite_asset, vite_asset_url and vite_legacy_asset on
\* a path that is no key of the loaded manifest raise the asset-not-found
\* error naming the path and the computed manifest path, with no tag emitted
\* and no dependency walk started.
C8_MissingKeyNotFound ==
    (last.op \in {"vite_asset", "vite_asset_url", "vite_legacy_asset"}
     /\ InProduction(last.config_key) /\ LastPathIsNoKey)
    => /\ last.outcome = "raise"
       /\ last.error.kind = "AssetNotFound"
       /\ last.error.path = last.path
       /\ last.error.manifest_path =
              get_computed_manifest_path(_configs[last.config_key])
       /\ last.tags = <<>>
       /\ last.walk.st = "none"

\* C8 witness: vite_legacy_asset was called in production mode with a path
\* that the loaded, non-empty manifest lacks.
C8_Witness ==
    /\ last.op = "vite_legacy_asset"
    /\ InProduction(last.config_key)
    /\ LastPathIsNoKey
    /\ ManifestKeys(LastManifest) # {}
    /\ last.error.kind = "AssetNotFound"

\* C9: vite_preload_asset on a path that is no key of the loaded manifest
\* raises the asset-not-found error of vite_asset, naming the path and the
\* computed manifest path.
C9_PreloadMissingKeyNotFound ==
    (last.op = "vite_preload_asset" /\ InProduction(last.config_key)
     /\ LastPathIsNoKey)
    => /\ last.outcome = "raise"
       /\ last.error.kind = "AssetNotFound"
       /\ last.error.path = last.path
       /\ last.error.manifest_path =
              get_computed_manifest_path(_configs[last.config_key])

\* The keys of the manifest that contain the motif, as positions in the document.
RefPolyfillsPositions(manifest, motif) ==
    {i \in DOMAIN manifest : IsSubstring(motif, manifest[i][1])}

\* C10: in production mode, vite_legacy_polyfills returns the nomodule script
\* tag for the file of the first entry, in document order, whose key contains
\* the motif, and raises the legacy-polyfills-not-found error exactly when no
\* key contains it.
C10_FirstPolyfillsInDocumentOrder ==
    (last.op = "vite_legacy_polyfills" /\ InProduction(last.config_key)
     /\ LastLoaded)
    => LET hits == RefPolyfillsPositions(
                       LastManifest,
                       _configs[last.config_key].legacy_polyfills_motif)
       IN IF hits = {}
          THEN last.outcome = "raise"
               /\ last.error.kind = "LegacyPolyfillsNotFound"
          ELSE last.outcome = "return"
               /\ \E i \in hits :
                      /\ \A j \in hits : i <= j
                      /\ Lines(last.ret) =
                             << <<"nomodule script", LastManifest[i][2].file>> >>

(***************************************************************************)
(* Loading and caching of the manifest.                                    *)
(***************************************************************************)

\* The operations that call _get_manifest whatever the mode.
ReadsManifestInEveryMode == {"vite_preload_asset", "vite_legacy_polyfills"}

\* C11 as stated: over any sequence of calls the manifest load runs at most
\* once per configuration name, also when the first load failed.
C11_LoadAtMostOnce == \A c \in ConfigKeys : parses[c] <= 1

\* C11: once the manifest of a name is cached, no later call loads it again
\* and every later call is answered from the cached graph, also when the
\* manifest file has changed since; while the name has no cached manifest
\* (no access yet, or failed loads only), every call that needs the manifest
\* loads it once more.
C11_CachedThenNoLoad ==
    [][/\ \A c \in DOMAIN _manifests :
              /\ parses'[c] = parses[c]
              /\ c \in DOMAIN _manifests'
              /\ _manifests'[c] = _manifests[c]
       /\ (/\ file' = file
           /\ last'.op = "vite_legacy_asset"
           /\ last'.config_key \in DOMAIN _manifests
           /\ InProduction(last'.config_key)
           /\ last'.path \in ManifestKeys(_manifests[last'.config_key]))
          => /\ last'.outcome = "return"
             /\ last'.ret[1].url.path
                  = ManifestGet(_manifests[last'.config_key], last'.path).file
       /\ (/\ file' = file
           /\ last'.op \in ReadsManifestInEveryMode
           /\ Registered(last'.config_key)
           /\ last'.config_key \notin DOMAIN _manifests)
          => parses'[last'.config_key] = parses[last'.config_key] + 1
      ]_vars

\* A call answered from the cache although the file on disk now holds another
\* built file for the same key.
C11_Witness ==
    /\ last.op = "vite_legacy_asset"
    /\ last.config_key = DEFAULT_CONFIG_KEY
    /\ last.outcome = "return"
    /\ last.loads = 0
    /\ parses[DEFAULT_CONFIG_KEY] = 1
    /\ file = SecondBuild
    /\ last.ret[1].url.path = BuiltFile(KeyM)

\* The file cannot be loaded: it is missing or unreadable, it is no JSON, or
\* one of its entries lacks file, src or isEntry or has a field the manifest
\* entry does not know.
LoadFails(content) ==
    \/ content.state \in {"missing", "malformed"}
    \/ \E i \in DOMAIN content.doc :
           \/ ~({"file", "src", "isEntry"} \subseteq DOMAIN content.doc[i][2])
           \/ DOMAIN content.doc[i][2]
                 \ {"file", "src", "isEntry", "css", "imports"} # {}

\* The call has to read the manifest of its configuration.
NeedsManifest(call) ==
    /\ Registered(call.config_key)
    /\ \/ call.op \in ReadsManifestInEveryMode
       \/ /\ call.op \in {"vite_asset", "vite_asset_url", "vite_legacy_asset"}
          /\ InProduction(call.config_key)

\* manifest is the graph of one whole document: every entry of the document,
\* in its order, each with all five fields.
CompleteGraph(manifest) ==
    \E f \in LoadFiles :
        /\ f.state = "json"
        /\ DOMAIN manifest = DOMAIN f.doc
        /\ \A i \in DOMAIN manifest :
               /\ manifest[i][1] = f.doc[i][1]
               /\ DOMAIN manifest[i][2] = EntryFields
               /\ \A fld \in DOMAIN f.doc[i][2] :
                      manifest[i][2][fld] = f.doc[i][2][fld]

\* C15: a call whose manifest load fails leaves the whole cache as it was (no
\* entry for its name, the other names untouched) and fails with the
\* manifest-read error, returning nothing; an entry of the cache is the graph
\* of a whole document and no later step changes or removes it.
C15_FailedLoadPublishesNothing ==
    [][/\ (/\ file' = file
           /\ NeedsManifest(last')
           /\ last'.config_key \notin DOMAIN _manifests
           /\ LoadFails(file))
          => /\ _manifests' = _manifests
             /\ last'.outcome = "raise"
             /\ last'.error.kind = "ManifestReadError"
             /\ last'.ret = <<>>
       /\ \A c \in DOMAIN _manifests :
              c \in DOMAIN _manifests' /\ _manifests'[c] = _manifests[c]
       /\ \A c \in DOMAIN _manifests' : CompleteGraph(_manifests'[c])
      ]_vars

\* A load failed on a document whose first entry is valid and whose second
\* lacks `file`, while another name has its manifest cached.
C15_Witness ==
    /\ file = JsonFile(<< <<KeyM, JsonEntry(KeyM, <<>>, <<CssX>>)>>,
                          <<KeyLP, NoFileEntry>> >>)
    /\ last.op = "vite_legacy_asset"
    /\ last.config_key = DEFAULT_CONFIG_KEY
    /\ last.outcome = "raise"
    /\ last.error.kind = "ManifestReadError"
    /\ parses[DEFAULT_CONFIG_KEY] >= 1
    /\ DEFAULT_CONFIG_KEY \notin DOMAIN _manifests
    /\ "dev" \in DOMAIN _manifests

\* C12: when several threads make their first call for a configuration name
\* concurrently, only one load proceeds for that name in every interleaving,
\* and the threads that have returned all hold the same, complete graph: the
\* one the cache holds.
C12_SingleFlight ==
    /\ \A c \in ConfigKeys : parses[c] <= 1
    /\ \A t \in Threads :
           threads[t].pc = "done"
           => /\ threads[t].ret = _manifests[threads[t].config_key]
              /\ \A i \in DOMAIN threads[t].ret :
                     DOMAIN threads[t].ret[i][2] = EntryFields

(***************************************************************************)
(* The HMR client and the React-refresh preamble.                          *)
(***************************************************************************)

\* C13: vite_hmr_client and vite_react_refresh, for a registered
\* configuration, return without reading the manifest: in dev mode one module
\* script for the dev-server URL of ws_client_url (resp. react_refresh_url),
\* in production mode the empty string.
C13_HmrClientAndReactRefresh ==
    (last.op \in {"vite_hmr_client", "vite_react_refresh"}
     /\ Registered(last.config_key))
    => /\ last.outcome = "return"
       /\ last.loads = 0
       /\ InProduction(last.config_key) => last.ret = <<>>
       /\ InDevMode(last.config_key)
          => /\ Len(last.ret) = 1
             /\ last.ret[1].tag = "script"
             /\ DictGet(last.ret[1].attrs, "type") = "module"
             /\ last.ret[1].url.fn = "vite_server_url"
             /\ last.ret[1].url.path =
                    IF last.op = "vite_hmr_client"
                    THEN _configs[last.config_key].ws_client_url
                    ELSE _configs[last.config_key].react_refresh_url

(***************************************************************************)
(* Extra attributes of the script tags.                                    *)
(***************************************************************************)

\* The default script attributes of an operation in a mode.
DefaultScriptAttrs(op, config_key) ==
    IF op = "vite_asset"
    THEN IF InDevMode(config_key) THEN << <<"type", "module">> >>
         ELSE << <<"type", "module">>, <<"crossorigin", "">> >>
    ELSE << <<"nomodule", "">>, <<"crossorigin", "">> >>

\* attrs is defaults with the caller's kwargs merged in: every default key at
\* its position, with the caller's value when the caller gave one; then the
\* caller's other keys in the order given; no key twice.
MergedCallerWins(attrs, defaults, kwargs) ==
    /\ Len(attrs) >= Len(defaults)
    /\ \A i \in DOMAIN defaults :
           /\ attrs[i][1] = defaults[i][1]
           /\ attrs[i][2] =
                  IF \E j \in DOMAIN kwargs : kwargs[j][1] = defaults[i][1]
                  THEN kwargs[CHOOSE j \in DOMAIN kwargs :
                                  kwargs[j][1] = defaults[i][1]][2]
                  ELSE defaults[i][2]
    /\ SubSeq(attrs, Len(defaults) + 1, Len(attrs))
          = SelectSeq(kwargs, LAMBDA kv :
                          \A i \in DOMAIN defaults : defaults[i][1] # kv[1])
    /\ \A i, j \in DOMAIN attrs : attrs[i][1] = attrs[j][1] => i = j

\* The last call was given extra attributes and owes a script tag: vite_asset
\* in dev mode or for a key of the manifest, vite_legacy_asset in production
\* for a key, and vite_legacy_polyfills in production when a key holds the
\* motif.
ScriptTagDue ==
    /\ last.op \in {"vite_asset", "vite_legacy_asset", "vite_legacy_polyfills"}
    /\ last.kwargs # <<>>
    /\ Registered(last.config_key)
    /\ \/ last.op = "vite_asset" /\ InDevMode(last.config_key)
       \/ /\ InProduction(last.config_key)
          /\ last.config_key \in DOMAIN _manifests
          /\ IF last.op = "vite_legacy_polyfills"
             THEN \E k \in ManifestKeys(_manifests[last.config_key]) :
                      IsSubstring(_configs[last.config_key].legacy_polyfills_motif, k)
             ELSE last.path \in ManifestKeys(_manifests[last.config_key])

\* A returned script tag carries the merged attributes, and no other tag of
\* the same call carries anything of the caller's.
ReturnedAttrsMerged ==
    (last.op \in {"vite_asset", "vite_legacy_asset", "vite_legacy_polyfills"}
     /\ last.outcome = "return")
    => \A i \in DOMAIN last.ret :
           IF last.ret[i].tag = "script"
           THEN MergedCallerWins(last.ret[i].attrs,
                                 DefaultScriptAttrs(last.op, last.config_key),
                                 last.kwargs)
           ELSE last.ret[i].attrs \in {<<>>, PreloadAttrs}

\* C14: vite_asset, vite_legacy_asset and vite_legacy_polyfills emit their
\* script tag with the caller's extra attributes merged into the defaults
\* (an overridden default keeps its position and carries the caller's value
\* once, new keys follow in the order given), and the stylesheet and preload
\* links of the same call carry none of them.
C14_ExtraAttrsMerged ==
    /\ ScriptTagDue
       => /\ last.outcome = "return"
          /\ Cardinality({i \in DOMAIN last.ret : last.ret[i].tag = "script"}) = 1
    /\ ReturnedAttrsMerged

====
